---- MODULE Spec2Model ----
(***************************************************************************)
(* Model of netlify/functions/extract.js: the HTTP handler and the         *)
(* extractM3U8WithBrowser routine (browser session, request/response       *)
(* hooks, in-page content scan, merge, filter and teardown).               *)
(*                                                                         *)
(* Strings are sequences of lexemes (tokens); '.m3u8' is one lexeme, so    *)
(* String.prototype.includes('.m3u8') is lexeme containment.               *)
(***************************************************************************)
EXTENDS Integers, Sequences, FiniteSets, TLC

\* ------------------------------------------------------------------------
\* Bounds
\* ------------------------------------------------------------------------
\* number of network events (requests + responses) the session emits
MaxEvents == 2

\* ------------------------------------------------------------------------
\* Strings
\* ------------------------------------------------------------------------
Marker == ".m3u8"

\* s.includes(tok)
Includes(s, tok) == \E i \in 1..Len(s) : s[i] = tok

\* elements of a sequence
Range(s) == { s[i] : i \in 1..Len(s) }

\* mutant: add without the membership test
SetAdd_NoCheck(set, x) == Append(set, x)

\* Set.prototype.add on an insertion-ordered Set
SetAdd(set, x) == IF \E i \in 1..Len(set) : set[i] = x THEN set ELSE Append(set, x)

RECURSIVE SetAddAll(_, _)
\* list.forEach(link => set.add(link))
SetAddAll(set, list) ==
  IF list = <<>> THEN set ELSE SetAddAll(SetAdd(set, Head(list)), Tail(list))

\* ------------------------------------------------------------------------
\* new URL(link): the WHATWG parser on lexeme sequences
\* ------------------------------------------------------------------------
SpecialSchemes == {"https:", "http:"}
Slashes == {"//", "/"}
\* code points that end the authority
AuthorityEnd == {"/", "?", "#"}
\* code points a host may not contain
ForbiddenHost == {" ", "\"", "<", ">", "[", "]", "{", "}", "(", ")", "'"}

RECURSIVE SkipSlashes(_, _)
\* special authority ignore slashes state
SkipSlashes(s, i) ==
  IF i <= Len(s) /\ s[i] \in Slashes THEN SkipSlashes(s, i + 1) ELSE i

RECURSIVE ScanUntil(_, _, _)
\* first index >= i whose lexeme is in stops, or Len(s)+1
ScanUntil(s, i, stops) ==
  IF i > Len(s) \/ s[i] \in stops THEN i ELSE ScanUntil(s, i + 1, stops)

\* percent-encode set of the path state
EncodePath(tok) == IF tok = " " THEN "%20" ELSE IF tok = "\"" THEN "%22" ELSE tok

RECURSIVE PathSegments(_, _, _)
\* split the raw path at "/" and resolve "." and ".." segments
PathSegments(raw, cur, out) ==
  IF raw = <<>>
    THEN IF cur = <<"..">> THEN (IF out = <<>> THEN <<>> ELSE SubSeq(out, 1, Len(out) - 1)) \o << <<>> >>
         ELSE IF cur = <<".">> THEN out \o << <<>> >>
         ELSE Append(out, cur)
    ELSE IF Head(raw) = "/"
      THEN IF cur = <<"..">> THEN PathSegments(Tail(raw), <<>>, IF out = <<>> THEN <<>> ELSE SubSeq(out, 1, Len(out) - 1))
           ELSE IF cur = <<".">> THEN PathSegments(Tail(raw), <<>>, out)
           ELSE PathSegments(Tail(raw), <<>>, Append(out, cur))
      ELSE PathSegments(Tail(raw), Append(cur, EncodePath(Head(raw))), out)

RECURSIVE JoinPath(_)
\* serialise the segments: "/" before each
JoinPath(segs) ==
  IF segs = <<>> THEN <<>> ELSE <<"/">> \o Head(segs) \o JoinPath(Tail(segs))

\* the parsed URL record, or [ok |-> FALSE] when the constructor throws TypeError
URLParse(link) ==
  IF Len(link) = 0 \/ link[1] \notin SpecialSchemes
    THEN [ok |-> FALSE, host |-> <<>>, pathname |-> <<>>, search |-> <<>>]
    ELSE LET h0 == SkipSlashes(link, 2)
             h1 == ScanUntil(link, h0, AuthorityEnd)
             host == SubSeq(link, h0, h1 - 1)
             p1 == ScanUntil(link, h1, {"?", "#"})
             q1 == ScanUntil(link, p1, {"#"})
             rawPath == IF h1 < p1 THEN SubSeq(link, h1 + 1, p1 - 1) ELSE <<>>
             segs == PathSegments(rawPath, <<>>, <<>>)
         IN IF host = <<>> \/ \E i \in 1..Len(host) : host[i] \in ForbiddenHost
              THEN [ok |-> FALSE, host |-> <<>>, pathname |-> <<>>, search |-> <<>>]
              ELSE [ok |-> TRUE, host |-> host,
                    pathname |-> JoinPath(segs),
                    search |-> SubSeq(link, p1, q1 - 1)]

\* mutant: the marker is looked for in the whole link instead of the pathname
FilterKeeps_WholeLink(link) ==
  LET url == URLParse(link) IN
  IF url.ok THEN Includes(link, Marker) ELSE FALSE

\* the predicate of the final filter: try { new URL(link).pathname.includes('.m3u8') } catch { false }
FilterKeeps(link) ==
  LET url == URLParse(link) IN
  IF url.ok THEN Includes(url.pathname, Marker) ELSE FALSE

\* Array.prototype.filter with FilterKeeps
FinalFilter(list) == SelectSeq(list, FilterKeeps)

\* ------------------------------------------------------------------------
\* The URL pattern of the Content Scanner:
\*   /https?:\/\/[^\s"'<>(){}[\]]+\.m3u8(?:\?[^\s"'<>(){}[\]]*)?/gi
\* ------------------------------------------------------------------------
Delims == {" ", "\"", "'", "<", ">", "(", ")", "{", "}", "[", "]"}
\* \.m3u8 under the i flag
MarkerCI == {".m3u8", ".M3U8"}

RECURSIVE LastMarker(_, _, _)
\* greatest j in lo..hi with text[j] the marker, 0 when none (greedy + backtracking)
LastMarker(text, lo, hi) ==
  IF hi < lo THEN 0
  ELSE IF text[hi] \in MarkerCI THEN hi ELSE LastMarker(text, lo, hi - 1)

\* end index of the match starting at i, 0 when no match starts at i
MatchEnd(text, i) ==
  IF i + 1 > Len(text) \/ text[i] \notin SpecialSchemes \/ text[i + 1] # "//" THEN 0
  ELSE LET runEnd == ScanUntil(text, i + 2, Delims) - 1
           j == LastMarker(text, i + 3, runEnd)
       IN IF j = 0 THEN 0
          ELSE IF j + 1 <= Len(text) /\ text[j + 1] = "?" THEN runEnd ELSE j

RECURSIVE RegexMatches(_, _)
\* text.match(pattern) with the g flag, scanning from index i; <<>> for null
RegexMatches(text, i) ==
  IF i > Len(text) THEN <<>>
  ELSE LET e == MatchEnd(text, i) IN
       IF e = 0 THEN RegexMatches(text, i + 1)
       ELSE <<SubSeq(text, i, e)>> \o RegexMatches(text, e + 1)

\* ------------------------------------------------------------------------
\* Values of the environment: URLs, pages, network traffic, invocations
\* ------------------------------------------------------------------------
\* undefined / null, and a string value
Undefined == [defined |-> FALSE, str |-> <<>>]
Str(s) == [defined |-> TRUE, str |-> s]
\* JavaScript truthiness of a string-or-undefined value
Truthy(v) == v.defined /\ v.str # <<>>

UrlManifest == <<"https:", "//", "cdn.example.com", "/", "stream", "/", "index", ".m3u8", "?", "token=abc">>
UrlMaster == <<"https:", "//", "example.com", "/", "video", "/", "master", ".m3u8">>
UrlQueryOnly == <<"https:", "//", "example.com", "/", "page.html", "?", "src=", ".m3u8">>
UrlNoMarker == <<"https:", "//", "example.com", "/", "live", "/", "playlist">>
UrlThumb == <<"https:", "//", "cdn.example.com", "/", "thumb", ".m3u8", ".jpg">>
UrlRelative == <<"/", "video", "/", "master", ".m3u8">>
UrlDotDot == <<"https:", "//", "example.com", "/", "x", ".m3u8", "/", "..">>
UrlUpper == <<"https:", "//", "example.com", "/", "LIVE", ".M3U8">>
UrlTarget == <<"https:", "//", "example.com", "/", "watch">>
NotAUrl == <<"not", " ", "a", " ", "url">>

\* the global identifiers probed by the Content Scanner
videoConfigs == <<"jwplayer", "videojs", "Hls", "hlsPlayer", "player",
                  "videoPlayer", "streamPlayer", "mediaPlayer", "jwConfig">>
\* the attributes probed by the Content Scanner
dataAttrs == <<"data-src", "data-url", "data-stream", "data-file", "src">>

Absent == [kind |-> "absent", json |-> <<>>]
NoGlobals == [n \in Range(videoConfigs) |-> Absent]

\* a page with nothing that qualifies
EmptyPage ==
  [scripts |-> << <<"var", " ", "x", "=", "1">> >>,
   globals |-> NoGlobals,
   elements |-> << ("src" :> <<"logo.png">>) >>,
   html |-> <<"<", "img", " ", "src", "=", "\"", "logo.png", "\"", ">">>]
\* the manifest only inside an inline script (and so in the serialised HTML)
ScriptPage ==
  [scripts |-> << <<"var", " ", "src", "=", "\"">> \o UrlMaster \o <<"\"", ";">> >>,
   globals |-> NoGlobals,
   elements |-> << ("id" :> <<"player">>) >>,
   html |-> <<"<", "script", ">", "var", " ", "src", "=", "\"">> \o UrlMaster
            \o <<"\"", ";", "<", "/", "script", ">">>]
\* player globals, one of which throws on access, and attribute candidates
PlayerPage ==
  [scripts |-> <<>>,
   globals |-> [NoGlobals EXCEPT
                  !["jwplayer"] = [kind |-> "value",
                                   json |-> <<"{", "\"", "file", "\"", ":", "\"">> \o UrlManifest
                                            \o <<"\"", ",", "\"", "alt", "\"", ":", "\"">> \o UrlUpper \o <<"\"", "}">>],
                  !["player"] = [kind |-> "throws", json |-> <<>>]],
   elements |-> << ("data-src" :> UrlRelative) @@ ("src" :> UrlDotDot),
                   ("data-file" :> UrlManifest) >>,
   html |-> <<"<", "video", " ", "data-file", "=", "\"">> \o UrlManifest \o <<"\"", ">">>]
Pages == {EmptyPage, ScriptPage, PlayerPage}

\* requests the session may issue: url and resourceType
NetRequests ==
  { [kind |-> "request", url |-> UrlManifest, resourceType |-> "xhr", contentType |-> <<>>],
    [kind |-> "request", url |-> UrlThumb, resourceType |-> "image", contentType |-> <<>>],
    [kind |-> "request", url |-> UrlNoMarker, resourceType |-> "stylesheet", contentType |-> <<>>],
    [kind |-> "request", url |-> UrlQueryOnly, resourceType |-> "document", contentType |-> <<>>] }
\* responses the session may receive: url and content-type header (<<>> when absent)
NetResponses ==
  { [kind |-> "response", url |-> UrlManifest, resourceType |-> "", contentType |-> <<"application/vnd.apple.mpegurl">>],
    [kind |-> "response", url |-> UrlNoMarker, resourceType |-> "", contentType |-> <<"application/vnd.apple.mpegurl">>],
    [kind |-> "response", url |-> UrlNoMarker, resourceType |-> "", contentType |-> <<"application/x-mpegurl", ";", "charset=utf-8">>],
    [kind |-> "response", url |-> UrlTarget, resourceType |-> "", contentType |-> <<"text/html">>],
    [kind |-> "response", url |-> UrlMaster, resourceType |-> "", contentType |-> <<>>] }
NoEvent == [kind |-> "none", url |-> <<>>, resourceType |-> "", contentType |-> <<>>]

\* event.body: absent, text that is not JSON, the text 'null', or an object with or without url
Bodies ==
  { [kind |-> "absent", url |-> Undefined],
    [kind |-> "malformed", url |-> Undefined],
    [kind |-> "null", url |-> Undefined],
    [kind |-> "object", url |-> Undefined],
    [kind |-> "object", url |-> Str(NotAUrl)],
    [kind |-> "object", url |-> Str(UrlTarget)] }
\* event.queryStringParameters?.url
QueryUrls == { Undefined, Str(<<>>), Str(NotAUrl), Str(UrlTarget) }
Methods == {"OPTIONS", "GET", "POST", "PUT"}
Events == [httpMethod : Methods, queryUrl : QueryUrls, body : Bodies]

\* ------------------------------------------------------------------------
\* Content Scanner: the function passed to page.evaluate
\* ------------------------------------------------------------------------
RECURSIVE ScanScripts(_, _)
\* pass 1: every script's text, matched against the pattern
ScanScripts(scripts, links) ==
  IF scripts = <<>> THEN links
  ELSE ScanScripts(Tail(scripts), SetAddAll(links, RegexMatches(Head(scripts), 1)))

RECURSIVE ScanConfigs(_, _, _)
\* pass 2: the player globals; a global that throws on access or on stringify is skipped
ScanConfigs(names, globals, links) ==
  IF names = <<>> THEN links
  ELSE LET g == globals[Head(names)] IN
       ScanConfigs(Tail(names), globals,
                   IF g.kind = "value" THEN SetAddAll(links, RegexMatches(g.json, 1)) ELSE links)

\* el.getAttribute(attr): null when the element has no such attribute
GetAttribute(el, attr) == IF attr \in DOMAIN el THEN Str(el[attr]) ELSE Undefined

RECURSIVE ScanAttrs(_, _, _)
\* the attributes of one element: a value containing the marker is added verbatim
ScanAttrs(el, attrs, links) ==
  IF attrs = <<>> THEN links
  ELSE LET value == GetAttribute(el, Head(attrs)) IN
       ScanAttrs(el, Tail(attrs),
                 IF Truthy(value) /\ Includes(value.str, Marker) THEN SetAdd(links, value.str) ELSE links)

RECURSIVE ScanElements(_, _)
\* pass 3: every element of the document
ScanElements(elements, links) ==
  IF elements = <<>> THEN links
  ELSE ScanElements(Tail(elements), ScanAttrs(Head(elements), dataAttrs, links))

\* the four passes in order, then Array.from(links)
ContentScan(page) ==
  LET l1 == ScanScripts(page.scripts, <<>>)
      l2 == ScanConfigs(videoConfigs, page.globals, l1)
      l3 == ScanElements(page.elements, l2)
  IN SetAddAll(l3, RegexMatches(page.html, 1))

\* ------------------------------------------------------------------------
\* Traffic Observer: the page.on('request') and page.on('response') callbacks
\* ------------------------------------------------------------------------
BlockedTypes == {"image", "font", "stylesheet"}
ManifestTypes == {"application/vnd.apple.mpegurl", "application/x-mpegurl"}

\* mutant: the request callback captures nothing
RequestHookLinks_Ignored(links, req) == links

\* the Manifest Link Set after the request callback has seen req
RequestHookLinks(links, req) ==
  IF Includes(req.url, Marker) THEN SetAdd(links, req.url) ELSE links

\* mutant: no resource type is blocked
RequestHookResolution_AlwaysContinue(req) == <<"continue">>

\* the calls the request callback makes on req: abort() or continue()
RequestHookResolution(req) ==
  IF req.resourceType \in BlockedTypes THEN <<"abort">> ELSE <<"continue">>

\* mutant: the content type is not consulted
ResponseHookLinks_UrlOnly(links, res) ==
  IF Includes(res.url, Marker) THEN SetAdd(links, res.url) ELSE links

\* the Manifest Link Set after the response callback has seen res
ResponseHookLinks(links, res) ==
  IF Includes(res.url, Marker) \/ \E t \in ManifestTypes : Includes(res.contentType, t)
    THEN SetAdd(links, res.url) ELSE links

\* ------------------------------------------------------------------------
\* exports.handler: reading the input and building the responses
\* ------------------------------------------------------------------------
NoError == [message |-> ""]
Error(msg) == [message |-> msg]

\* JSON.parse(event.body || '{}') followed by body.url
BodyUrl(body) ==
  CASE body.kind = "absent" -> [threw |-> FALSE, error |-> NoError, value |-> Undefined]
    [] body.kind = "malformed" -> [threw |-> TRUE, error |-> Error("Unexpected token"), value |-> Undefined]
    [] body.kind = "null" -> [threw |-> TRUE, error |-> Error("Cannot read properties of null"), value |-> Undefined]
    [] OTHER -> [threw |-> FALSE, error |-> NoError, value |-> body.url]

\* targetUrl as the handler reads it from the event
ReadTargetUrl(event) ==
  IF event.httpMethod = "GET" THEN [threw |-> FALSE, error |-> NoError, value |-> event.queryUrl]
  ELSE IF event.httpMethod = "POST" THEN BodyUrl(event.body)
  ELSE [threw |-> FALSE, error |-> NoError, value |-> Undefined]

Response(status, body) == [statusCode |-> status, body |-> body]
NoResponse == Response(0, [raw |-> "none"])
PreflightResponse == Response(200, [raw |-> ""])
MissingUrlResponse == Response(400, [success |-> FALSE, error |-> <<"Missing url parameter. Usage: /extract?url=https://example.com">>])
InvalidUrlResponse == Response(400, [success |-> FALSE, error |-> <<"Invalid URL provided">>])
NotFoundResponse == Response(404, [success |-> FALSE, error |-> <<"No M3U8 links found on the webpage">>])
SuccessResponse(targetUrl, m3u8Links) ==
  Response(200, [success |-> TRUE, url |-> targetUrl, m3u8Links |-> m3u8Links,
                 primaryLink |-> m3u8Links[1]])

\* mutant: the error escapes the handler
HandlerCatch_Rethrows(error) == [outcome |-> "threw", response |-> NoResponse]

\* the catch clause of the handler: how an error leaves it
HandlerCatch(error) ==
  [outcome |-> "returned",
   response |-> Response(500, [success |-> FALSE,
                               error |-> <<"Internal server error: ", error.message>>])]

\* mutant: a single link is reported as not found
HandlerResult_OffByOne(targetUrl, m3u8Links) ==
  IF Len(m3u8Links) <= 1 THEN NotFoundResponse ELSE SuccessResponse(targetUrl, m3u8Links)

\* the handler after extractM3U8WithBrowser has returned m3u8Links
HandlerResult(targetUrl, m3u8Links) ==
  IF Len(m3u8Links) = 0 THEN NotFoundResponse ELSE SuccessResponse(targetUrl, m3u8Links)

\* ------------------------------------------------------------------------
\* extractM3U8WithBrowser: the awaited steps and the finally clause
\* ------------------------------------------------------------------------
\* the awaited calls of the routine after the launch, in program order
PageSteps == <<"newPage", "setUserAgent", "setRequestInterception", "goto", "waitForTimeout", "evaluate">>
\* position of the routine: 0 before the call, then the awaits in order, then the exit
Rank(p) ==
  CASE p = "idle" -> 0
    [] p = "launch" -> 1
    [] p = "newPage" -> 2
    [] p = "setUserAgent" -> 3
    [] p = "setRequestInterception" -> 4
    [] p = "goto" -> 5
    [] p = "waitForTimeout" -> 6
    [] p = "evaluate" -> 7
    [] p = "close" -> 8
    [] OTHER -> 9

\* the rejection of an awaited step
Rejection(step) == Error(step)

\* mutant: the finally clause does not close the browser
FinallyCloses_Never(b) == FALSE

\* finally { if (browser) await browser.close() }: whether close() is called
FinallyCloses(b) == b # "null"

\* where the routine goes when the try block is left with error err (NoError: a return)
AfterTry(b, err) ==
  IF FinallyCloses(b) THEN "close" ELSE IF err = NoError THEN "returned" ELSE "threw"

\* ------------------------------------------------------------------------
\* State
\* ------------------------------------------------------------------------
VARIABLES
  event,          \* the invocation's event: httpMethod, query parameter, body
  page,           \* the document the target URL serves
  hpc,            \* handler: "start", "awaitExtract", "returned", "threw"
  responses,      \* responses the handler has returned
  targetUrl,      \* the argument of extractM3U8WithBrowser
  pc,             \* the await the routine is suspended at, or its exit
  browser,        \* the variable browser: "null" or "launched"
  closeCalls,     \* calls of browser.close()
  hooks,          \* the request and response callbacks are registered
  navigated,      \* page.goto has been called
  m3u8Links,      \* the Manifest Link Set, in insertion order
  result,         \* the value the routine returns, once computed
  thrown,         \* the error the routine is propagating
  nEvents,        \* network events emitted so far
  lastEvent,      \* the request or response last passed to a callback
  lastResolution, \* the calls the request callback made on it
  traffic,        \* history: events emitted before the final list was computed
  steps,          \* history: the steps attempted, in order
  failedStep      \* history: the first step that failed

vars == <<event, page, hpc, responses, targetUrl, pc, browser, closeCalls, hooks, navigated,
          m3u8Links, result, thrown, nEvents, lastEvent, lastResolution,
          traffic, steps, failedStep>>

handlerVars == <<hpc, responses, targetUrl>>
netVars == <<m3u8Links, nEvents, lastEvent, lastResolution, traffic>>
envVars == <<event, page>>

NoResult == [defined |-> FALSE, list |-> <<>>]

Init ==
  /\ event \in Events
  /\ page \in Pages
  /\ hpc = "start"
  /\ responses = <<>>
  /\ targetUrl = <<>>
  /\ pc = "idle"
  /\ browser = "null"
  /\ closeCalls = 0
  /\ hooks = FALSE
  /\ navigated = FALSE
  /\ m3u8Links = <<>>
  /\ result = NoResult
  /\ thrown = NoError
  /\ nEvents = 0
  /\ lastEvent = NoEvent
  /\ lastResolution = <<>>
  /\ traffic = {}
  /\ steps = <<>>
  /\ failedStep = "none"

\* ------------------------------------------------------------------------
\* exports.handler up to the call of extractM3U8WithBrowser (lines 4-61),
\* and the routine up to its first await (lines 99-120)
\* ------------------------------------------------------------------------
HandlerStart ==
  /\ hpc = "start"
  /\ LET read == ReadTargetUrl(event)
         reply(r) == /\ hpc' = "returned"
                     /\ responses' = Append(responses, r)
                     /\ UNCHANGED <<targetUrl, pc, steps>>
     IN IF event.httpMethod = "OPTIONS" THEN reply(PreflightResponse)
        ELSE IF read.threw
          THEN LET c == HandlerCatch(read.error) IN
               /\ hpc' = c.outcome
               /\ responses' = IF c.outcome = "returned" THEN Append(responses, c.response) ELSE responses
               /\ UNCHANGED <<targetUrl, pc, steps>>
        ELSE IF ~Truthy(read.value) THEN reply(MissingUrlResponse)
        ELSE IF ~URLParse(read.value.str).ok THEN reply(InvalidUrlResponse)
        ELSE /\ hpc' = "awaitExtract"
             /\ targetUrl' = read.value.str
             /\ pc' = "launch"
             /\ steps' = Append(steps, "launch")
             /\ UNCHANGED responses
  /\ UNCHANGED <<envVars, netVars, browser, closeCalls, hooks, navigated, result, thrown, failedStep>>

\* puppeteer.launch resolves; browser.newPage() is called (lines 106-122)
LaunchOk ==
  /\ pc = "launch"
  /\ browser' = "launched"
  /\ pc' = "newPage"
  /\ steps' = Append(steps, "newPage")
  /\ UNCHANGED <<envVars, handlerVars, netVars, closeCalls, hooks, navigated, result, thrown, failedStep>>

\* chromium.executablePath() or puppeteer.launch rejects: browser is still null
LaunchFail ==
  /\ pc = "launch"
  /\ thrown' = Rejection("launch")
  /\ failedStep' = "launch"
  /\ pc' = AfterTry(browser, Rejection("launch"))
  /\ closeCalls' = IF FinallyCloses(browser) THEN closeCalls + 1 ELSE closeCalls
  /\ steps' = IF FinallyCloses(browser) THEN Append(steps, "close") ELSE steps
  /\ UNCHANGED <<envVars, handlerVars, netVars, browser, hooks, navigated, result>>

\* newPage resolves; m3u8Links = new Set(); setUserAgent is called (lines 122-126)
NewPageOk ==
  /\ pc = "newPage"
  /\ m3u8Links' = <<>>
  /\ pc' = "setUserAgent"
  /\ steps' = Append(steps, "setUserAgent")
  /\ UNCHANGED <<envVars, handlerVars, browser, closeCalls, hooks, navigated, result, thrown,
                 nEvents, lastEvent, lastResolution, traffic, failedStep>>

\* setUserAgent resolves; setRequestInterception(true) is called (line 129)
SetUserAgentOk ==
  /\ pc = "setUserAgent"
  /\ pc' = "setRequestInterception"
  /\ steps' = Append(steps, "setRequestInterception")
  /\ UNCHANGED <<envVars, handlerVars, netVars, browser, closeCalls, hooks, navigated, result, thrown, failedStep>>

\* setRequestInterception resolves; both callbacks are registered and
\* page.goto is called (lines 131-165)
SetRequestInterceptionOk ==
  /\ pc = "setRequestInterception"
  /\ hooks' = TRUE
  /\ navigated' = TRUE
  /\ pc' = "goto"
  /\ steps' = Append(steps, "goto")
  /\ UNCHANGED <<envVars, handlerVars, netVars, browser, closeCalls, result, thrown, failedStep>>

\* goto resolves (network idle); waitForTimeout(5000) is called (line 170)
GotoOk ==
  /\ pc = "goto"
  /\ pc' = "waitForTimeout"
  /\ steps' = Append(steps, "waitForTimeout")
  /\ UNCHANGED <<envVars, handlerVars, netVars, browser, closeCalls, hooks, navigated, result, thrown, failedStep>>

\* the settle delay elapses; page.evaluate is called (line 175)
WaitForTimeoutOk ==
  /\ pc = "waitForTimeout"
  /\ pc' = "evaluate"
  /\ steps' = Append(steps, "evaluate")
  /\ UNCHANGED <<envVars, handlerVars, netVars, browser, closeCalls, hooks, navigated, result, thrown, failedStep>>

\* evaluate resolves with the scanner's list; merge, filter, return value,
\* then the finally clause (lines 175-257)
EvaluateOk ==
  /\ pc = "evaluate"
  /\ LET pageM3u8Links == ContentScan(page)
         merged == SetAddAll(m3u8Links, pageM3u8Links)
     IN /\ m3u8Links' = merged
        /\ result' = [defined |-> TRUE, list |-> FinalFilter(merged)]
  /\ pc' = AfterTry(browser, NoError)
  /\ closeCalls' = IF FinallyCloses(browser) THEN closeCalls + 1 ELSE closeCalls
  /\ steps' = steps \o <<"merge", "filter">> \o (IF FinallyCloses(browser) THEN <<"close">> ELSE <<>>)
  /\ UNCHANGED <<envVars, handlerVars, browser, hooks, navigated, thrown, nEvents, lastEvent,
                 lastResolution, traffic, failedStep>>

\* one of the awaited page calls rejects: the try block is left for the finally clause
AwaitRejects ==
  /\ pc \in Range(PageSteps)
  /\ thrown' = Rejection(pc)
  /\ failedStep' = pc
  /\ pc' = AfterTry(browser, Rejection(pc))
  /\ closeCalls' = IF FinallyCloses(browser) THEN closeCalls + 1 ELSE closeCalls
  /\ steps' = IF FinallyCloses(browser) THEN Append(steps, "close") ELSE steps
  /\ UNCHANGED <<envVars, handlerVars, netVars, browser, hooks, navigated, result>>

\* browser.close() resolves: the routine returns its value or rethrows (lines 253-258)
CloseOk ==
  /\ pc = "close"
  /\ pc' = IF thrown = NoError THEN "returned" ELSE "threw"
  /\ UNCHANGED <<envVars, handlerVars, netVars, browser, closeCalls, hooks, navigated, result, thrown,
                 steps, failedStep>>

\* browser.close() rejects: its error replaces whatever the try block left
CloseFail ==
  /\ pc = "close"
  /\ thrown' = Rejection("close")
  /\ failedStep' = IF failedStep = "none" THEN "close" ELSE failedStep
  /\ pc' = "threw"
  /\ UNCHANGED <<envVars, handlerVars, netVars, browser, closeCalls, hooks, navigated, result, steps>>

\* ------------------------------------------------------------------------
\* Network events of the session, dispatched to the callbacks
\* ------------------------------------------------------------------------
\* the page is loading or loaded and the session has not finished closing
SessionLive == navigated /\ pc \in {"goto", "waitForTimeout", "evaluate", "close"}

RequestEvent(req) ==
  /\ SessionLive
  /\ nEvents < MaxEvents
  /\ nEvents' = nEvents + 1
  /\ lastEvent' = req
  /\ m3u8Links' = IF hooks THEN RequestHookLinks(m3u8Links, req) ELSE m3u8Links
  /\ lastResolution' = IF hooks THEN RequestHookResolution(req) ELSE <<>>
  /\ traffic' = IF result.defined THEN traffic ELSE traffic \cup {req}
  /\ UNCHANGED <<envVars, handlerVars, pc, browser, closeCalls, hooks, navigated, result, thrown,
                 steps, failedStep>>

ResponseEvent(res) ==
  /\ SessionLive
  /\ nEvents < MaxEvents
  /\ nEvents' = nEvents + 1
  /\ lastEvent' = res
  /\ m3u8Links' = IF hooks THEN ResponseHookLinks(m3u8Links, res) ELSE m3u8Links
  /\ lastResolution' = <<>>
  /\ traffic' = IF result.defined THEN traffic ELSE traffic \cup {res}
  /\ UNCHANGED <<envVars, handlerVars, pc, browser, closeCalls, hooks, navigated, result, thrown,
                 steps, failedStep>>

\* ------------------------------------------------------------------------
\* exports.handler after the await of extractM3U8WithBrowser (lines 61-96)
\* ------------------------------------------------------------------------
HandlerResume ==
  /\ hpc = "awaitExtract"
  /\ pc \in {"returned", "threw"}
  /\ IF pc = "threw"
       THEN LET c == HandlerCatch(thrown) IN
            /\ hpc' = c.outcome
            /\ responses' = IF c.outcome = "returned" THEN Append(responses, c.response) ELSE responses
       ELSE /\ hpc' = "returned"
            /\ responses' = Append(responses, HandlerResult(targetUrl, result.list))
  /\ UNCHANGED <<envVars, netVars, targetUrl, pc, browser, closeCalls, hooks, navigated, result, thrown,
                 steps, failedStep>>

Next ==
  \/ HandlerStart
  \/ LaunchOk
  \/ LaunchFail
  \/ NewPageOk
  \/ SetUserAgentOk
  \/ SetRequestInterceptionOk
  \/ GotoOk
  \/ WaitForTimeoutOk
  \/ EvaluateOk
  \/ AwaitRejects
  \/ CloseOk
  \/ CloseFail
  \/ \E req \in NetRequests : RequestEvent(req)
  \/ \E res \in NetResponses : ResponseEvent(res)
  \/ HandlerResume

Spec == Init /\ [][Next]_vars

TypeOK ==
  /\ hpc \in {"start", "awaitExtract", "returned", "threw"}
  /\ pc \in {"idle", "launch", "close", "returned", "threw"} \cup Range(PageSteps)
  /\ browser \in {"null", "launched"}
  /\ closeCalls \in 0..1
  /\ nEvents \in 0..MaxEvents
  /\ Len(responses) <= 1

\* ------------------------------------------------------------------------
\* Properties
\* ------------------------------------------------------------------------
\* the invocation carries a syntactically valid target URL
ValidInput ==
  \/ event.httpMethod = "GET" /\ event.queryUrl.defined /\ URLParse(event.queryUrl.str).ok
  \/ event.httpMethod = "POST" /\ event.body.kind = "object" /\ event.body.url.defined
       /\ URLParse(event.body.url.str).ok

\* a GET or POST invocation whose target URL is missing or not a well-formed URL
MissingOrInvalidInput == event.httpMethod \in {"GET", "POST"} /\ ~ValidInput

\* the content type names an HLS manifest
ManifestContentType(e) ==
  e.kind = "response" /\ \E t \in ManifestTypes : Includes(e.contentType, t)

\* C1: once the browser has been launched, whenever extractM3U8WithBrowser has
\* returned or rethrown, browser.close() has been called exactly once, and it
\* was the last step attempted before the exit.
C1_ClosedOnEveryExit ==
  (pc \in {"returned", "threw"} /\ browser = "launched") =>
     /\ closeCalls = 1
     /\ steps # <<>> /\ steps[Len(steps)] = "close"

\* C1 witness: the in-page evaluation threw, the session was closed, the routine rethrew
C1_Witness ==
  pc = "threw" /\ browser = "launched" /\ failedStep = "evaluate" /\ closeCalls = 1

\* C2: with a valid target URL the handler never throws, returns at most one
\* response, and when it has returned, exactly one, with status 200, 404 or
\* 500 and a JSON body carrying a success flag.
C2_HandlerAlwaysResponds ==
  ValidInput =>
     /\ hpc # "threw"
     /\ Len(responses) <= 1
     /\ hpc = "returned" =>
          /\ Len(responses) = 1
          /\ responses[1].statusCode \in {200, 404, 500}
          /\ "success" \in DOMAIN responses[1].body
          /\ responses[1].body.success \in BOOLEAN
     /\ (hpc = "awaitExtract" /\ pc \in {"returned", "threw"}) => ENABLED HandlerResume

\* C2 witness: navigation succeeded, teardown failed, the handler answered 500
C2_Witness ==
  /\ ValidInput /\ hpc = "returned" /\ failedStep = "close"
  /\ responses[1].statusCode = 500

\* C3: every entry of the returned list parses as an absolute URL whose
\* pathname contains '.m3u8', comes from the Manifest Link Set, and the filter
\* raised no error (no step failed before the list was computed).
C3_ResultEntriesAreManifestUrls ==
  result.defined =>
     /\ \A i \in 1..Len(result.list) :
          LET url == URLParse(result.list[i]) IN
          /\ url.ok
          /\ \E k \in 1..Len(url.pathname) : url.pathname[k] = Marker
          /\ result.list[i] \in Range(m3u8Links)
     /\ failedStep \in {"none", "close"}

\* C3 witness: an unparsable candidate and a query-only candidate were in the
\* set, a manifest URL was returned
C3_Witness ==
  /\ result.defined /\ pc = "returned"
  /\ UrlRelative \in Range(m3u8Links)
  /\ UrlQueryOnly \in Range(m3u8Links)
  /\ UrlDotDot \in Range(m3u8Links)
  /\ UrlManifest \in Range(result.list)
  /\ UrlRelative \notin Range(result.list)
  /\ UrlQueryOnly \notin Range(result.list)

\* C4: the returned list has no duplicate entries.
C4_ResultHasNoDuplicates ==
  result.defined =>
     \A i, j \in 1..Len(result.list) : i # j => result.list[i] # result.list[j]

\* C4 witness: the same manifest URL was seen in a request, in a response and
\* by the DOM scan, and has been returned
C4_Witness ==
  /\ result.defined /\ page = PlayerPage
  /\ \E e \in traffic : e.kind = "request" /\ e.url = UrlManifest
  /\ \E e \in traffic : e.kind = "response" /\ e.url = UrlManifest
  /\ UrlManifest \in Range(ContentScan(page))
  /\ UrlManifest \in Range(result.list)

\* C5 (as claimed): a GET or POST invocation whose target URL is missing or
\* invalid is answered with status 400 and never reaches the Extractor.
C5_InvalidInputIs400 ==
  MissingOrInvalidInput =>
     /\ pc = "idle" /\ browser = "null"
     /\ hpc # "awaitExtract"
     /\ hpc = "returned" => (Len(responses) = 1 /\ responses[1].statusCode = 400)

\* the traffic event would be captured by one of the hooks
Qualifies(e) == Includes(e.url, Marker) \/ ManifestContentType(e)

\* C6: when the extraction returned, the handler answers 404 with success
\* false exactly when the filtered list is empty, and otherwise 200 with
\* success true, the whole list and its first element as primaryLink; a page
\* without qualifying content and traffic yields the empty list.
C6_StatusFollowsResult ==
  /\ (hpc = "returned" /\ pc = "returned") =>
        LET r == responses[1] IN
        /\ (result.list = <<>>) <=> (r.statusCode = 404 /\ r.body.success = FALSE)
        /\ result.list # <<>> =>
             /\ r.statusCode = 200 /\ r.body.success = TRUE
             /\ r.body.m3u8Links = result.list
             /\ r.body.primaryLink = Head(result.list)
  /\ (pc = "returned" /\ page = EmptyPage /\ \A e \in traffic : ~Qualifies(e)) =>
        result.list = <<>>

\* C6 witness: two links were found and reported with status 200
C6_Witness ==
  /\ hpc = "returned" /\ pc = "returned"
  /\ Len(result.list) >= 2
  /\ responses[1].statusCode = 200

\* C7: a response with a manifest content type whose URL lacks '.m3u8' is in
\* the Manifest Link Set once the response hook has seen it, and no such URL
\* is ever in the returned list.
C7_ContentTypeOnlyCaptureIsFiltered ==
  /\ (lastEvent.kind = "response" /\ ManifestContentType(lastEvent)
        /\ ~Includes(lastEvent.url, Marker)) => lastEvent.url \in Range(m3u8Links)
  /\ result.defined =>
        \A r \in NetResponses :
           (ManifestContentType(r) /\ ~Includes(r.url, Marker)) => r.url \notin Range(result.list)

\* C7 witness: such a response arrived before the merge, its URL is in the
\* set, and the routine returned a list without it
C7_Witness ==
  /\ pc = "returned"
  /\ \E r \in traffic : ManifestContentType(r) /\ r.url = UrlNoMarker
  /\ UrlNoMarker \in Range(m3u8Links)
  /\ UrlNoMarker \notin Range(result.list)

\* the step dispatches a request to the request hook
RequestDispatched == nEvents' = nEvents + 1 /\ lastEvent'.kind = "request"

\* C8 (as claimed): a request of type image, font or stylesheet is aborted
\* and leaves the Manifest Link Set unchanged; any other request continues;
\* each request is resolved by exactly one call.
C8_BlockedNeverCandidate ==
  [][RequestDispatched =>
       IF lastEvent'.resourceType \in BlockedTypes
         THEN lastResolution' = <<"abort">> /\ m3u8Links' = m3u8Links
         ELSE lastResolution' = <<"continue">>]_vars

\* C8 (amended): a request of type image, font or stylesheet is aborted, any
\* other request continues, each by exactly one call; whatever its type, the
\* request's URL is added to the Manifest Link Set exactly when it contains
\* '.m3u8'.
C8_BlockedAbortedMarkerCaptured ==
  [][RequestDispatched =>
       /\ lastResolution' = (IF lastEvent'.resourceType \in BlockedTypes
                               THEN <<"abort">> ELSE <<"continue">>)
       /\ Len(lastResolution') = 1
       /\ IF Includes(lastEvent'.url, Marker)
            THEN Range(m3u8Links') = Range(m3u8Links) \cup {lastEvent'.url}
            ELSE m3u8Links' = m3u8Links]_vars

\* C8 witness: an image request with '.m3u8' in its URL was aborted and captured
C8_Witness ==
  /\ lastEvent.kind = "request" /\ lastEvent.resourceType = "image"
  /\ Includes(lastEvent.url, Marker)
  /\ lastResolution = <<"abort">>
  /\ lastEvent.url \in Range(m3u8Links)

\* C9: the hooks are registered while the page navigates, settles and is
\* evaluated; every request or response with '.m3u8' in its URL emitted
\* before the final list was computed is in the Manifest Link Set, and in the
\* returned list if it passes the filter; once computed, the returned list
\* never changes.
C9_HooksCoverPageLifetime ==
  /\ [](/\ navigated => hooks
        /\ \A e \in traffic : Includes(e.url, Marker) => e.url \in Range(m3u8Links)
        /\ result.defined =>
             \A e \in traffic :
                LET url == URLParse(e.url) IN
                (Includes(e.url, Marker) /\ url.ok /\ Includes(url.pathname, Marker))
                   => e.url \in Range(result.list))
  /\ [][result.defined => result' = result]_vars

\* C9 witness: one manifest was requested during the page lifetime and is
\* returned; another arrived after the list was computed and is not
C9_Witness ==
  /\ result.defined
  /\ \E e \in traffic : e.url = UrlManifest
  /\ UrlManifest \in Range(result.list)
  /\ lastEvent.url = UrlMaster
  /\ UrlMaster \in Range(m3u8Links)
  /\ UrlMaster \notin Range(result.list)

\* the steps in pipeline order
StepOrder == <<"launch", "newPage", "setUserAgent", "setRequestInterception", "goto",
               "waitForTimeout", "evaluate", "merge", "filter", "close">>
StepIndex(st) == CHOOSE i \in 1..Len(StepOrder) : StepOrder[i] = st

\* C10 (as claimed): the steps run in pipeline order, each at most once; after
\* a failure of a step before teardown only teardown is attempted, and the
\* handler answers with exactly one 500 carrying that failure's message.
C10_ForwardOnlySingleError ==
  /\ \A i, j \in 1..Len(steps) : i < j => StepIndex(steps[i]) < StepIndex(steps[j])
  /\ failedStep \in {"launch", "goto", "evaluate"} =>
        /\ steps[Len(steps)] \in {failedStep, "close"}
        /\ ~result.defined
        /\ hpc = "returned" =>
             /\ Len(responses) = 1
             /\ responses[1].statusCode = 500
             /\ responses[1].body.error = <<"Internal server error: ", Rejection(failedStep).message>>
====
